---- MODULE Spec2Model ----
(***************************************************************************)
(* A model of src/main.py, the File Finder bot: the request ledger         *)
(* (pending_requests), the membership cache (user_membership_status) and   *)
(* the per-admin scratch state (context.user_data), driven by the handlers *)
(* that main() registers.                                                  *)
(*                                                                         *)
(* Every handler is a coroutine.  A handler activation is a task; its pc   *)
(* names the await at which it is suspended.  The code between two awaits  *)
(* runs without interruption and is one step of the model.  A call of the  *)
(* bot API is issued in the step that reaches it (the variable out holds   *)
(* the call issued by the last step) and returns, or raises, in the next   *)
(* step of the task.                                                       *)
(*                                                                         *)
(* main() builds the Application without concurrent_updates, so an update  *)
(* is taken from the queue only when the handler of the previous one has   *)
(* returned or raised: Spec.  SpecOverlap lets activations overlap at      *)
(* their awaits.                                                           *)
(***************************************************************************)
EXTENDS Integers, FiniteSets, Sequences, TLC

(* ------------------------------ bounds --------------------------------- *)

\* Updates and clock advances taken from the environment in one behaviour.
MaxEvents == 4

\* Handler activations that can exist at once.
NumSlots == 2

(* ------------------------- program constants --------------------------- *)

\* "Cache membership status for 1 hour"
TTL == 3600

USERS == {1, 2, 3}

ADMIN_IDS == {1, 2}

\* The users that send photos, texts and /verify in the model; user 2 is
\* an admin as well.
Requesters == {2, 3}

None == 0

MemberStatuses == {"member", "administrator", "creator"}

ChatStatuses == MemberStatuses \cup {"restricted", "left", "kicked"}

\* What get_chat_member can produce: a status, or an exception.
LookupOutcomes == ChatStatuses \cup {"error"}

\* The kinds of message main() routes: filters.PHOTO, filters.TEXT, and
\* everything else that is not a command.
MessageKinds == {"photo", "text", "document", "video", "sticker"}

Actions == {"approve", "reject", "sendfile", "postchannel", "sendreason"}

Fields == {"sending_file_for", "posting_channel_for", "sending_reason_for"}

\* How far the wall clock may move between two steps.
TickSteps == {1, TTL - 1, TTL}

Slots == 1 .. NumSlots

VARIABLES
    now,                     \* time.time(), in seconds
    pending_requests,        \* request_id -> [user_id, status]
    user_membership_status,  \* user_id -> [last_check, is_member], and by: what wrote the record (history)
    user_data,               \* user_id -> context.user_data of that user
    tasks,                   \* slot -> the handler activation in it
    out,                     \* the bot API call issued by the last step
    events,                  \* updates and clock advances taken so far
    notices,                 \* request_id -> approve/reject notifications issued (history, saturates at 2)
    consumed                 \* user_id -> field -> times the value set in the field has led to a status write (history, saturates at 2)

vars == <<now, pending_requests, user_membership_status, user_data, tasks,
          out, events, notices, consumed>>

(* ------------------------------ helpers -------------------------------- *)

Put(f, k, v) == [x \in DOMAIN f \cup {k} |-> IF x = k THEN v ELSE f[x]]

Sat(n) == IF n < 2 THEN n + 1 ELSE n

NoOut == [type |-> "none", to |-> None, rid |-> None]

Call(type, to, rid) == [type |-> type, to |-> to, rid |-> rid]

Idle == [pc |-> "idle", h |-> "none", user |-> None, act |-> "none",
         rid |-> None, to |-> None, ct |-> None, force |-> FALSE,
         res |-> FALSE, src |-> "none", from |-> "none"]

IsIdle(s) == tasks[s].pc = "idle"

\* The slot a new activation is put in: the lowest idle one.
FreeSlot(s) == IsIdle(s) /\ \A t \in Slots : t < s => ~IsIdle(t)

Finish(s) == tasks' = [tasks EXCEPT ![s] = Idle]

Init ==
    /\ now = 100
    /\ pending_requests = <<>>
    /\ user_membership_status = <<>>
    /\ user_data = [u \in USERS |-> [f \in Fields |-> None]]
    /\ tasks = [s \in Slots |-> Idle]
    /\ out = NoOut
    /\ events = 0
    /\ notices = <<>>
    /\ consumed = [u \in USERS |-> [f \in Fields |-> 0]]

(* ---------------------------- the clock -------------------------------- *)

Tick ==
    /\ events < MaxEvents
    /\ \E d \in TickSteps : now' = now + d
    /\ events' = events + 1
    /\ out' = NoOut
    /\ UNCHANGED <<pending_requests, user_membership_status, user_data,
                   tasks, notices, consumed>>

(* ------------------------- the membership gate ------------------------- *)

\* The comparison the wrong way round: a record counts as fresh once it is
\* older than the TTL.
CacheFreshInverted(current_time, last_check) == current_time - last_check > TTL

\* The comparison with the boundary on the wrong side: a record counts as
\* fresh at an age of exactly the TTL.
CacheFreshInclusive(current_time, last_check) ==
    current_time - last_check <= TTL

\* "if current_time - last_check < 3600"
CacheFresh(current_time, last_check) == current_time - last_check < TTL

\* The cache test without "not force_check": a forced check is answered
\* from a fresh record.
CacheHitForced(user_id, current_time, force_check) ==
    /\ user_id \in DOMAIN user_membership_status
    /\ current_time - user_membership_status[user_id].last_check < TTL

\* check_user_membership up to its first await: the cached verdict is
\* used when the check is not forced, the user has a record and the record
\* is fresh.
CacheHit(user_id, current_time, force_check) ==
    /\ ~force_check
    /\ user_id \in DOMAIN user_membership_status
    /\ CacheFresh(current_time, user_membership_status[user_id].last_check)

\* The except branch failing open: an exception of the lookup counts as a
\* member.
VerdictFailOpen(outcome) == outcome \in MemberStatuses \cup {"error"}

\* "chat_member.status in ['member', 'administrator', 'creator']"; an
\* exception of the lookup counts as not a member.
Verdict(outcome) == outcome \in MemberStatuses

\* The write with the verdict the wrong way round.
CacheWriteNegated(user_id, current_time, is_member, by) ==
    Put(user_membership_status, user_id,
        [last_check |-> current_time, is_member |-> ~is_member, by |-> by])

\* "user_membership_status[user_id] = (current_time, is_member)"; by is
\* "lookup" for the try branch of check_user_membership, "error" for its
\* except branch and "push" for track_chat_member.
CacheWrite(user_id, current_time, is_member, by) ==
    Put(user_membership_status, user_id,
        [last_check |-> current_time, is_member |-> is_member, by |-> by])

\* "request_id = int(time.time())"
NewRequestId == now

\* "pending_requests[request_id] = {'user_id': ..., 'status': 'pending'}"
\* (message_id and timestamp are not read by any handler of the ledger).
Create(request_id, user_id) ==
    Put(pending_requests, request_id,
        [user_id |-> user_id, status |-> "pending"])

\* The gate left open: no verdict sends the caller to the join prompt.
DeniedNever(is_member) == FALSE

\* "if not await check_user_membership(user_id, context)"
Denied(is_member) == ~is_member

\* The caller of check_user_membership from the point where the verdict is
\* known to its next await.  t is the activation, with h the handler:
\*   photo   handle_photo: a non-member gets the join prompt; for a member
\*           the request is stored and send_photo is issued;
\*   text    handle_text (start, help_command and status_command do the
\*           same to the state): join prompt or a reply;
\*   verify  verify_command and the verify_membership button.
AfterGate(s, t, is_member, src) ==
    LET t1 == [t EXCEPT !.res = is_member, !.src = src] IN
    IF Denied(is_member)
    THEN /\ tasks' = [tasks EXCEPT ![s] = [t1 EXCEPT !.pc = "join"]]
         /\ out' = Call("join_prompt", t.user, None)
         /\ UNCHANGED <<pending_requests, notices>>
    ELSE IF t.h = "photo"
    THEN /\ pending_requests' = Create(NewRequestId, t.user)
         /\ notices' = Put(notices, NewRequestId, 0)
         /\ tasks' = [tasks EXCEPT ![s] =
                         [t1 EXCEPT !.pc = "forward", !.rid = NewRequestId]]
         /\ out' = Call("admin_channel", None, NewRequestId)
    ELSE /\ tasks' = [tasks EXCEPT ![s] = [t1 EXCEPT !.pc = "reply"]]
         /\ out' = Call(IF t.h = "verify" THEN "verified" ELSE "hint",
                        t.user, None)
         /\ UNCHANGED <<pending_requests, notices>>

\* A handler that starts with check_user_membership(user_id, context,
\* force_check): "current_time = time.time()", then the cache.
Gate(s, h, user_id, force_check) ==
    LET t == [Idle EXCEPT !.h = h, !.user = user_id, !.ct = now,
                          !.force = force_check] IN
    IF CacheHit(user_id, now, force_check)
    THEN /\ AfterGate(s, t, user_membership_status[user_id].is_member,
                      "cache")
         /\ UNCHANGED user_membership_status
    ELSE /\ tasks' = [tasks EXCEPT ![s] = [t EXCEPT !.pc = "lookup"]]
         /\ out' = Call("get_chat_member", user_id, None)
         /\ UNCHANGED <<pending_requests, notices,
                        user_membership_status>>

\* get_chat_member returns or raises: the record is written with the time
\* read before the await, and the caller goes on.  (src of the activation
\* records which of the two happened.)
LookupReturn(s) ==
    /\ tasks[s].pc = "lookup"
    /\ \E outcome \in LookupOutcomes :
          LET src == IF outcome = "error" THEN "error" ELSE "lookup" IN
          /\ user_membership_status' =
                CacheWrite(tasks[s].user, tasks[s].ct, Verdict(outcome), src)
          /\ AfterGate(s, tasks[s], Verdict(outcome), src)
    /\ UNCHANGED <<now, user_data, events, consumed>>

\* track_chat_member: extract_status_change never returns None, and only
\* its is_member half is used.
TrackChatMember(user_id, new_status) ==
    /\ user_membership_status' =
          CacheWrite(user_id, now, Verdict(new_status), "push")
    /\ out' = NoOut
    /\ UNCHANGED <<pending_requests, user_data, tasks, notices, consumed>>

\* The last await of handle_photo, handle_text, verify_command and
\* send_join_requirement returns or raises; handle_photo then confirms to
\* the user.
Return(s) ==
    /\ tasks[s].pc \in {"join", "reply", "forward"}
    /\ \E ok \in BOOLEAN :
          out' = IF ok /\ tasks[s].pc = "forward"
                 THEN Call("submitted", tasks[s].user, tasks[s].rid)
                 ELSE NoOut
    /\ Finish(s)
    /\ UNCHANGED <<now, pending_requests, user_membership_status, user_data,
                   events, notices, consumed>>

(* ------------------------- handle_admin_button ------------------------- *)

\* "pending_requests[request_id]['status'] = ..."
SetStatus(request_id, status) ==
    [pending_requests EXCEPT ![request_id].status = status]

\* The status the approve and reject branches write.
Decision(action) == IF action = "approve" THEN "approved" ELSE "rejected"

\* The key of context.user_data the sendfile, postchannel and sendreason
\* branches write.
FieldOf(action) ==
    CASE action = "sendfile" -> "sending_file_for"
      [] action = "postchannel" -> "posting_channel_for"
      [] OTHER -> "sending_reason_for"

\* "context.user_data[<field>] = request_id"
Expect(user_id, field, request_id) ==
    [user_data EXCEPT ![user_id][field] = request_id]

\* The deletion forgotten.
ClearNothing(user_id, field) == user_data

\* "del context.user_data[<field>]"
Clear(user_id, field) == [user_data EXCEPT ![user_id][field] = None]

\* The authorization test passing everybody.
IsAdminAnyone(user_id) == TRUE

\* "user_id in ADMIN_IDS" (handle_admin_button and handle_admin_message
\* return at "if user_id not in ADMIN_IDS").
IsAdmin(user_id) == user_id \in ADMIN_IDS

\* "if request_id not in pending_requests": the caption is edited to
\* "Error: Request not found" and the handler returns.
NotFound(user_id, request_id) ==
    /\ out' = Call("not_found", user_id, request_id)
    /\ UNCHANGED <<pending_requests, user_data, tasks, notices, consumed>>

\* The approve and reject branches up to their first await: the status is
\* written and the caption edited.
Decide(s, user_id, action, request_id) ==
    /\ pending_requests' = SetStatus(request_id, Decision(action))
    /\ tasks' = [tasks EXCEPT ![s] =
           [Idle EXCEPT !.pc = "edit", !.h = "button", !.user = user_id,
                        !.act = action, !.rid = request_id,
                        !.to = pending_requests[request_id].user_id,
                        !.from = pending_requests[request_id].status]]
    /\ out' = Call("edit_caption", None, request_id)
    /\ UNCHANGED <<user_data, notices, consumed>>

\* The sendfile, postchannel and sendreason branches: the key is set, and
\* only the caption is edited and instructions are sent after it.
Await(user_id, action, request_id) ==
    /\ user_data' = Expect(user_id, FieldOf(action), request_id)
    /\ consumed' = [consumed EXCEPT ![user_id][FieldOf(action)] = 0]
    /\ out' = Call("instructions", user_id, request_id)
    /\ UNCHANGED <<pending_requests, tasks, notices>>

\* handle_admin_button with the test for an unknown id made in the approve
\* and reject branches only.
HandleAdminButtonLate(s, user_id, action, request_id) ==
    IF ~IsAdmin(user_id)
    THEN /\ out' = Call("edit_markup", None, None)
         /\ UNCHANGED <<pending_requests, user_data, tasks, notices, consumed>>
    ELSE IF action \notin {"approve", "reject"}
    THEN Await(user_id, action, request_id)
    ELSE IF request_id \notin DOMAIN pending_requests
    THEN NotFound(user_id, request_id)
    ELSE Decide(s, user_id, action, request_id)

\* handle_admin_button for callback data "<action>_<request_id>", from the
\* return of "await query.answer()", before which the handler reads no
\* state, to its next await.  A press by a non-admin removes the keyboard
\* and a press for an unknown id reports the error; both then return.
HandleAdminButton(s, user_id, action, request_id) ==
    IF ~IsAdmin(user_id)
    THEN /\ out' = Call("edit_markup", None, None)
         /\ UNCHANGED <<pending_requests, user_data, tasks, notices, consumed>>
    ELSE IF request_id \notin DOMAIN pending_requests
    THEN NotFound(user_id, request_id)
    ELSE IF action \in {"approve", "reject"}
    THEN Decide(s, user_id, action, request_id)
    ELSE Await(user_id, action, request_id)

\* edit_message_caption of the approve and reject branches returns (ok),
\* and the requester is notified, or it raises.
EditReturned(s, ok) ==
    /\ tasks[s].pc = "edit"
    /\ IF ok
       THEN /\ out' = Call(Decision(tasks[s].act), tasks[s].to, tasks[s].rid)
            /\ notices' = [r \in DOMAIN notices |->
                              IF r = tasks[s].rid THEN Sat(notices[r])
                              ELSE notices[r]]
       ELSE /\ out' = NoOut
            /\ UNCHANGED notices
    /\ Finish(s)
    /\ UNCHANGED <<now, pending_requests, user_membership_status, user_data,
                   events, consumed>>

EditReturn(s) == \E ok \in BOOLEAN : EditReturned(s, ok)

(* ------------------------- handle_admin_message ------------------------ *)

\* "update.message.document or update.message.video"
HasMedia(kind) == kind \in {"document", "video"}

\* "update.message.text"
HasText(kind) == kind = "text"

\* The branch of handle_admin_message a message of this kind takes, given
\* the three values read from context.user_data.
Branch(ud, kind) ==
    IF ud["sending_file_for"] # None /\ HasMedia(kind)
    THEN "sending_file_for"
    ELSE IF ud["posting_channel_for"] # None /\ HasMedia(kind)
    THEN "posting_channel_for"
    ELSE IF ud["sending_reason_for"] # None /\ HasText(kind)
    THEN "sending_reason_for"
    ELSE "none"

\* The bot API call a branch issues first: the file to the requester, the
\* file to the requests channel, the reason to the requester.
FirstCall(field, requester_id, request_id) ==
    CASE field = "sending_file_for" -> Call("file", requester_id, request_id)
      [] field = "posting_channel_for" -> Call("publish", None, request_id)
      [] OTHER -> Call("reason", requester_id, request_id)

\* handle_admin_message up to its first await.  (get_chat, whose result
\* only goes into the caption, is left out.)
HandleAdminMessage(s, user_id, kind) ==
    LET field == Branch(user_data[user_id], kind) IN
    IF ~IsAdmin(user_id) \/ field = "none"
    THEN /\ out' = NoOut
         /\ UNCHANGED <<pending_requests, tasks, notices, consumed>>
    ELSE LET request_id == user_data[user_id][field] IN
         IF request_id \notin DOMAIN pending_requests
         THEN /\ out' = Call("not_found", user_id, request_id)
              /\ UNCHANGED <<pending_requests, tasks, notices, consumed>>
         ELSE /\ tasks' = [tasks EXCEPT ![s] =
                     [Idle EXCEPT !.pc = "send", !.h = "artifact",
                                  !.user = user_id, !.act = field,
                                  !.rid = request_id,
                                  !.to = pending_requests[request_id].user_id,
                                  !.from = pending_requests[request_id].status]]
              /\ out' = FirstCall(field,
                                  pending_requests[request_id].user_id,
                                  request_id)
              /\ UNCHANGED <<pending_requests, notices, consumed>>

\* The status each branch writes once its first call has returned.
Outcome(field) ==
    CASE field = "sending_file_for" -> "completed"
      [] field = "posting_channel_for" -> "posted_to_channel"
      [] OTHER -> "rejected_with_reason"

\* The first call of a branch returns (ok), the status is written and the
\* next call is issued (for posting_channel_for the copy to the requester,
\* as message_sent is set; otherwise the confirmation to the admin), or the
\* call raises and the handler ends.
SendReturned(s, ok) ==
    /\ tasks[s].pc = "send"
    /\ IF ok
       THEN /\ pending_requests' =
                   SetStatus(tasks[s].rid, Outcome(tasks[s].act))
            /\ consumed' =
                   [consumed EXCEPT ![tasks[s].user][tasks[s].act] = Sat(@)]
            /\ IF tasks[s].act = "posting_channel_for"
               THEN /\ out' = Call("channel_file", tasks[s].to, tasks[s].rid)
                    /\ tasks' = [tasks EXCEPT ![s].pc = "copy"]
               ELSE /\ out' = Call("confirm", tasks[s].user, tasks[s].rid)
                    /\ tasks' = [tasks EXCEPT ![s].pc = "confirm"]
       ELSE /\ out' = NoOut
            /\ Finish(s)
            /\ UNCHANGED <<pending_requests, consumed>>
    /\ UNCHANGED <<now, user_membership_status, user_data, events, notices>>

SendReturn(s) == \E ok \in BOOLEAN : SendReturned(s, ok)

\* The copy to the requester of a channel post returns, and the admin is
\* told, or it raises.
CopyReturn(s) ==
    /\ tasks[s].pc = "copy"
    /\ \E ok \in BOOLEAN :
          IF ok
          THEN /\ out' = Call("confirm", tasks[s].user, tasks[s].rid)
               /\ tasks' = [tasks EXCEPT ![s].pc = "confirm"]
          ELSE /\ out' = NoOut
               /\ Finish(s)
    /\ UNCHANGED <<now, pending_requests, user_membership_status, user_data,
                   events, notices, consumed>>

\* The confirmation to the admin returns (ok), and the branch's key is
\* deleted ("Clear the context"), or it raises.
ConfirmReturned(s, ok) ==
    /\ tasks[s].pc = "confirm"
    /\ IF ok
       THEN /\ user_data' = Clear(tasks[s].user, tasks[s].act)
            /\ consumed' =
                   [consumed EXCEPT ![tasks[s].user][tasks[s].act] = 0]
       ELSE UNCHANGED <<user_data, consumed>>
    /\ out' = NoOut
    /\ Finish(s)
    /\ UNCHANGED <<now, pending_requests, user_membership_status, events,
                   notices>>

ConfirmReturn(s) == \E ok \in BOOLEAN : ConfirmReturned(s, ok)

(* ------------------------------- main ---------------------------------- *)

\* The handler main() registers for a message of each kind: handle_photo
\* for filters.PHOTO, handle_text for filters.TEXT & ~filters.COMMAND, and
\* handle_admin_message for filters.ALL & ~COMMAND & ~PHOTO & ~TEXT.
Message(s, user_id, kind) ==
    /\ IF kind = "photo"
       THEN Gate(s, "photo", user_id, FALSE) /\ UNCHANGED consumed
       ELSE IF kind = "text"
       THEN Gate(s, "text", user_id, FALSE) /\ UNCHANGED consumed
       ELSE HandleAdminMessage(s, user_id, kind)
            /\ UNCHANGED user_membership_status
    /\ UNCHANGED user_data

\* CommandHandler("verify", verify_command), and the verify_membership
\* callback of handle_admin_button.
Verify(s, user_id) ==
    /\ Gate(s, "verify", user_id, TRUE)
    /\ UNCHANGED <<user_data, consumed>>

\* CallbackQueryHandler(handle_admin_button), for the buttons of a request.
Button(s, user_id, action, request_id) ==
    /\ HandleAdminButton(s, user_id, action, request_id)
    /\ UNCHANGED user_membership_status

\* ChatMemberHandler(track_chat_member, MY_CHAT_MEMBER)
ChatMember(user_id, new_status) ==
    /\ TrackChatMember(user_id, new_status)

\* The request ids a callback can carry: those of the ledger, and one that
\* is not in it.
CallbackIds == DOMAIN pending_requests \cup {None}

\* One update is taken from the queue and its handler runs to its first
\* await.
Take(s) ==
    /\ events < MaxEvents
    /\ FreeSlot(s)
    /\ events' = events + 1
    /\ UNCHANGED now
    /\ \/ \E u \in Requesters, k \in {"photo", "text"} : Message(s, u, k)
       \/ \E u \in USERS, k \in MessageKinds \ {"photo", "text"} :
             Message(s, u, k)
       \/ \E u \in Requesters : Verify(s, u)
       \/ \E u \in USERS, a \in Actions, r \in CallbackIds :
             Button(s, u, a, r)
       \/ \E u \in Requesters, st \in ChatStatuses : ChatMember(u, st)

\* A suspended handler goes on.
Resume(s) ==
    \/ LookupReturn(s)
    \/ Return(s)
    \/ EditReturn(s)
    \/ SendReturn(s)
    \/ CopyReturn(s)
    \/ ConfirmReturn(s)

\* No handler is running: Application processes updates one at a time.
AllIdle == \A s \in Slots : IsIdle(s)

Next ==
    \/ Tick
    \/ AllIdle /\ \E s \in Slots : Take(s)
    \/ \E s \in Slots : Resume(s)

Spec == Init /\ [][Next]_vars

NextOverlap ==
    \/ Tick
    \/ \E s \in Slots : Take(s)
    \/ \E s \in Slots : Resume(s)

SpecOverlap == Init /\ [][NextOverlap]_vars

(* ------------------------------ the claims ------------------------------ *)

\* The edges of the lifecycle graph.
LegalEdge(a, b) ==
    <<a, b>> \in {<<"pending", "approved">>, <<"pending", "rejected">>,
                  <<"approved", "completed">>,
                  <<"approved", "posted_to_channel">>,
                  <<"rejected", "rejected_with_reason">>}

\* The branch of the lifecycle graph a status lies on.
Root(status) ==
    CASE status = "pending" -> "pending"
      [] status \in {"approved", "completed", "posted_to_channel"} ->
            "approved"
      [] OTHER -> "rejected"

\* The keys of context.user_data that hold a request id.
Outstanding(u) == {f \in Fields : user_data[u][f] # None}

\* A step in which slot s takes an update and its handler suspends.
Starts(s) == IsIdle(s) /\ tasks'[s].pc # "idle"

\* A step in which handle_photo stores a request under id r.
Stores(r) ==
    \E s \in Slots :
       tasks[s].pc # "forward" /\ tasks'[s].pc = "forward" /\ tasks'[s].rid = r

\* C1: every change an admin's press or artifact makes to the status of a
\* request is an edge of the lifecycle graph; in particular a request
\* becomes completed only from approved.
C1_LifecycleEdges ==
    [][\A r \in DOMAIN pending_requests :
          (r \in DOMAIN pending_requests' /\ ~Stores(r)) =>
             \/ pending_requests'[r].status = pending_requests[r].status
             \/ LegalEdge(pending_requests[r].status,
                          pending_requests'[r].status)]_vars

\* C2: the status of a request id that has left pending never is pending
\* again, and it never moves from the branch rooted at approved to the one
\* rooted at rejected or back.
C2_NoReturnNoCrossing ==
    [][\A r \in DOMAIN pending_requests :
          (r \in DOMAIN pending_requests'
             /\ Root(pending_requests[r].status) # "pending") =>
             Root(pending_requests'[r].status) =
                Root(pending_requests[r].status)]_vars

\* C3: a press of approve or reject is carried out (the status written, the
\* caption edited, the requester notified) only on a request whose status
\* was pending; on any other status it fails, writes nothing and notifies
\* nobody.
C3_InvalidTransition ==
    \A s \in Slots : tasks[s].h = "button" => tasks[s].from = "pending"

\* C4: of the approve and reject presses on one request exactly one
\* succeeds, so the requester is sent at most one approve/reject
\* notification for a request.
C4_OneDecision == \A r \in DOMAIN notices : notices[r] <= 1

\* C5: a submission that creates a request allocates an id that is not in
\* the ledger and leaves every record of the ledger as it is.
C5_FreshId ==
    [][\A id \in DOMAIN pending_requests' :
          Stores(id) =>
             /\ id \notin DOMAIN pending_requests
             /\ \A r \in DOMAIN pending_requests :
                   pending_requests'[r] = pending_requests[r]]_vars

\* C6: a request id of the ledger stays in the ledger, with the requester
\* it was created with.
C6_RequesterImmutable ==
    [][\A r \in DOMAIN pending_requests :
          /\ r \in DOMAIN pending_requests'
          /\ pending_requests'[r].user_id = pending_requests[r].user_id]_vars

\* C7: an admin has at most one outstanding expectation.
C7_SingleExpectation == \A u \in USERS : Cardinality(Outstanding(u)) <= 1

\* C8: an artifact is resolved against an expectation that is outstanding
\* and has not been consumed yet (without one it is inert, and so is a
\* second artifact), and the free text of an admin who is awaited to give a
\* reason is resolved against that expectation rather than handled as a
\* user's text.
C8_ConsumedOnce ==
    [][\A s \in Slots :
          Starts(s) =>
             /\ tasks'[s].h = "artifact" =>
                   /\ user_data[tasks'[s].user][tasks'[s].act] = tasks'[s].rid
                   /\ consumed[tasks'[s].user][tasks'[s].act] = 0
             /\ (tasks'[s].h = "text" /\ tasks'[s].user \in ADMIN_IDS) =>
                   user_data[tasks'[s].user]["sending_reason_for"] = None]_vars

\* C9: one expectation is observed by at most one message of the admin: it
\* leads to at most one delivery of an artifact followed by the status
\* write.
C9_AtomicResolve ==
    \A u \in USERS : \A f \in Fields : consumed[u][f] <= 1

\* C10: a non-forced check_user_membership for a user whose record is
\* younger than the TTL returns the verdict of the record, issues no
\* lookup and leaves the cache as it is.
C10_CachedVerdict ==
    [][\A s \in Slots :
          (Starts(s) /\ tasks'[s].h \in {"photo", "text"}
             /\ tasks'[s].user \in DOMAIN user_membership_status
             /\ now - user_membership_status[tasks'[s].user].last_check < TTL)
          => /\ tasks'[s].pc # "lookup"
             /\ out'.type # "get_chat_member"
             /\ tasks'[s].res =
                   user_membership_status[tasks'[s].user].is_member
             /\ user_membership_status' = user_membership_status]_vars

\* C10 witness: a handler goes on with a verdict taken from the cache that
\* says the user is not a member.
C10_Witness ==
    \E s \in Slots : tasks[s].src = "cache" /\ ~tasks[s].res

\* A step in which the lookup of the activation in slot s returns or raises.
Looked(s) == tasks[s].pc = "lookup" /\ tasks'[s].pc # "lookup"

\* C11: a forced check (verify_command, the verify_membership button) issues
\* a lookup whatever the cache holds; when the lookup is over the record of
\* the user holds its verdict with the time the check read, and the check
\* returns that verdict.
C11_ForcedLookup ==
    [][\A s \in Slots :
          /\ (Starts(s) /\ tasks'[s].h = "verify") =>
                /\ tasks'[s].pc = "lookup"
                /\ out' = Call("get_chat_member", tasks'[s].user, None)
                /\ tasks'[s].ct = now
          /\ (Looked(s) /\ tasks[s].h = "verify") =>
                /\ tasks'[s].pc \in {"reply", "join"}
                /\ tasks'[s].res = (tasks'[s].pc = "reply")
                /\ user_membership_status'[tasks[s].user].is_member =
                      tasks'[s].res
                /\ user_membership_status'[tasks[s].user].last_check =
                      tasks[s].ct]_vars

\* C11 witness: the lookup of a forced check is in flight for a user whose
\* record is younger than the TTL.
C11_Witness ==
    \E s \in Slots :
       /\ tasks[s].h = "verify" /\ tasks[s].pc = "lookup"
       /\ out.type = "get_chat_member"
       /\ tasks[s].user \in DOMAIN user_membership_status
       /\ tasks[s].ct - user_membership_status[tasks[s].user].last_check < TTL

\* A step in which slot s takes a message whose handler makes a non-forced
\* check for a user whose record is younger than the TTL.
StartsFresh(s) ==
    /\ Starts(s)
    /\ tasks'[s].h \in {"photo", "text"}
    /\ tasks'[s].user \in DOMAIN user_membership_status
    /\ now - user_membership_status[tasks'[s].user].last_check < TTL

\* C12: when the lookup raises, forced or not and whatever the record said,
\* the check returns false and the record holds false with the time the
\* check read; a non-forced check within the TTL of that record returns
\* false and issues no lookup.
C12_FailClosed ==
    [][\A s \in Slots :
          /\ (Looked(s) /\ tasks'[s].src = "error") =>
                /\ ~tasks'[s].res
                /\ tasks'[s].pc = "join"
                /\ pending_requests' = pending_requests
                /\ user_membership_status'[tasks[s].user] =
                      [last_check |-> tasks[s].ct, is_member |-> FALSE,
                       by |-> "error"]
          /\ (StartsFresh(s)
                /\ user_membership_status[tasks'[s].user].by = "error") =>
                /\ ~tasks'[s].res
                /\ tasks'[s].pc = "join"
                /\ out'.type # "get_chat_member"
                /\ user_membership_status' = user_membership_status]_vars

\* C12 witness: a non-forced check has been answered from the record a
\* raising lookup left.
C12_Witness ==
    \E s \in Slots :
       /\ tasks[s].src = "cache"
       /\ user_membership_status[tasks[s].user].by = "error"
       /\ ~tasks[s].res

\* A step in which slot s takes a message whose handler makes a non-forced
\* check for a user whose record has reached the TTL.
StartsStale(s) ==
    /\ Starts(s)
    /\ tasks'[s].h \in {"photo", "text"}
    /\ tasks'[s].user \in DOMAIN user_membership_status
    /\ now - user_membership_status[tasks'[s].user].last_check >= TTL

\* C13: a non-forced check for a user whose record is TTL seconds old or
\* older does not return the record's verdict: it issues a lookup, and what
\* it returns is the verdict the lookup leaves in the record, false when
\* the lookup raised.
C13_StaleRechecked ==
    [][\A s \in Slots :
          /\ StartsStale(s) =>
                /\ tasks'[s].pc = "lookup"
                /\ tasks'[s].src = "none"
                /\ out' = Call("get_chat_member", tasks'[s].user, None)
          /\ (Looked(s) /\ ~tasks[s].force) =>
                /\ tasks'[s].src \in {"lookup", "error"}
                /\ tasks'[s].src = "error" => ~tasks'[s].res
                /\ user_membership_status'[tasks[s].user] =
                      [last_check |-> tasks[s].ct,
                       is_member |-> tasks'[s].res,
                       by |-> tasks'[s].src]]_vars

\* C13 witness: the lookup of a non-forced check is in flight for a user
\* whose record was exactly TTL seconds old when the check began.
C13_Witness ==
    \E s \in Slots :
       /\ ~tasks[s].force /\ tasks[s].pc = "lookup"
       /\ out.type = "get_chat_member"
       /\ tasks[s].user \in DOMAIN user_membership_status
       /\ tasks[s].ct - user_membership_status[tasks[s].user].last_check = TTL

\* A step in which an update is taken from the queue.
Taken == now' = now /\ events' = events + 1

\* A step in which an update is taken whose handler returns without an
\* await and without a call of the bot API.
Silent == Taken /\ out' = NoOut /\ tasks' = tasks

\* A step in which track_chat_member handles an update of user u that
\* carries the new status st.
Pushes(u, st) == Silent /\ ChatMember(u, st)

\* C14: track_chat_member overwrites the record of the user with the verdict
\* of the new status and the current time, whatever the record held, issues
\* no lookup and touches no other record; a non-forced check within the TTL
\* of that record returns the pushed verdict and issues no lookup.
C14_PushOverwrites ==
    [][/\ Silent =>
             \A u \in USERS : \A st \in ChatStatuses :
                Pushes(u, st) =>
                   /\ user_membership_status'[u] =
                         [last_check |-> now,
                          is_member |->
                             st \in {"member", "administrator", "creator"},
                          by |-> "push"]
                   /\ \A v \in DOMAIN user_membership_status \ {u} :
                         user_membership_status'[v] = user_membership_status[v]
                   /\ out'.type # "get_chat_member"
                   /\ \A s \in Slots : tasks'[s].pc # "lookup"
       /\ \A s \in Slots :
             (StartsFresh(s)
                /\ user_membership_status[tasks'[s].user].by = "push") =>
                /\ tasks'[s].res =
                      user_membership_status[tasks'[s].user].is_member
                /\ tasks'[s].pc # "lookup"
                /\ out'.type # "get_chat_member"
                /\ user_membership_status' = user_membership_status]_vars

\* C14 witness: a non-forced check has been answered "member" from a record
\* that track_chat_member wrote.
C14_Witness ==
    \E s \in Slots :
       /\ tasks[s].src = "cache"
       /\ user_membership_status[tasks[s].user].by = "push"
       /\ tasks[s].res

\* C15: the free text of an admin whose sending_reason_for names a request
\* is handled by the reason branch of handle_admin_message (the status
\* becomes rejected_with_reason, the requester is sent the reason and the
\* key is deleted): handle_text never runs for it.
C15_ReasonRouted ==
    \A s \in Slots :
       (tasks[s].h = "text" /\ IsAdmin(tasks[s].user)) =>
          \/ user_data[tasks[s].user]["sending_reason_for"] = None
          \/ user_data[tasks[s].user]["sending_reason_for"]
                \notin DOMAIN pending_requests

\* A step in which slot s takes an update: with Button(s, u, a, r) the
\* press of button a_r by user u, with Message(s, u, k) a message of kind k
\* from user u.
Takes(s) == Taken /\ FreeSlot(s)

\* C16: the send-file scenario, while the calls of the bot API return.  A
\* stored submission is pending with its sender as requester; approve on
\* the pending request makes it approved, and the requester is then sent
\* the approval; sendfile by an admin sets sending_file_for of that admin
\* and leaves the status approved; a document or video of that admin is
\* then sent to the requester, the status becomes completed and
\* sending_file_for of the admin is deleted.
C16_SendFileScenario ==
    [][\A s \in Slots :
          /\ \A r \in DOMAIN pending_requests' :
                (tasks[s].pc # "forward" /\ tasks'[s].pc = "forward"
                   /\ tasks'[s].rid = r) =>
                   pending_requests'[r] =
                      [user_id |-> tasks'[s].user, status |-> "pending"]
          /\ Takes(s) =>
             \A a \in ADMIN_IDS : \A r \in DOMAIN pending_requests :
                /\ (pending_requests[r].status = "pending"
                      /\ Button(s, a, "approve", r)) =>
                      /\ pending_requests'[r].status = "approved"
                      /\ tasks'[s].pc = "edit"
                /\ (pending_requests[r].status = "approved"
                      /\ Button(s, a, "sendfile", r)) =>
                      /\ user_data'[a]["sending_file_for"] = r
                      /\ pending_requests' = pending_requests
                /\ \A k \in {"document", "video"} :
                      (/\ pending_requests[r].status = "approved"
                       /\ user_data[a]["sending_file_for"] = r
                       /\ Message(s, a, k)) =>
                         /\ out' = Call("file", pending_requests[r].user_id, r)
                         /\ tasks'[s].pc = "send"
                         /\ pending_requests' = pending_requests
          /\ (EditReturned(s, TRUE) /\ tasks[s].act = "approve") =>
                out' = Call("approved",
                            pending_requests[tasks[s].rid].user_id,
                            tasks[s].rid)
          /\ (SendReturned(s, TRUE) /\ tasks[s].act = "sending_file_for") =>
                /\ pending_requests'[tasks[s].rid].status = "completed"
                /\ tasks'[s].pc = "confirm"
          /\ (ConfirmReturned(s, TRUE)
                /\ tasks[s].act = "sending_file_for") =>
                /\ user_data'[tasks[s].user]["sending_file_for"] = None
                /\ pending_requests' = pending_requests]_vars

\* C16 witness: the file of an admin has been delivered for a request that
\* was approved, its requester having been sent the approval, and the
\* request is completed.
C16_Witness ==
    \E s \in Slots :
       /\ tasks[s].pc = "confirm" /\ tasks[s].act = "sending_file_for"
       /\ tasks[s].from = "approved"
       /\ pending_requests[tasks[s].rid].status = "completed"
       /\ notices[tasks[s].rid] = 1

\* A step in which check_user_membership hands its verdict to the handler
\* in slot s, from the cache or from the lookup.
Gated(s) ==
    /\ tasks[s].pc \in {"idle", "lookup"}
    /\ tasks'[s].pc \in {"join", "reply", "forward"}

\* C17: when the check returns false for the sender of a photo, the ledger
\* stays as it is, in that step and for the rest of the handler, and the
\* join prompt is what is sent; a request id enters the ledger only in a
\* step of handle_photo in which the check returned true for the requester.
C17_MembersOnly ==
    [][/\ \A s \in Slots :
             /\ (Gated(s) /\ tasks'[s].h = "photo"
                   /\ ~user_membership_status'[tasks'[s].user].is_member) =>
                   /\ pending_requests' = pending_requests
                   /\ tasks'[s].pc = "join"
                   /\ out' = Call("join_prompt", tasks'[s].user, None)
             /\ tasks[s].pc = "join" => pending_requests' = pending_requests
       /\ \A r \in DOMAIN pending_requests' \ DOMAIN pending_requests :
             \E s \in Slots :
                /\ Gated(s) /\ tasks'[s].h = "photo" /\ tasks'[s].rid = r
                /\ user_membership_status'[tasks'[s].user].is_member
                /\ pending_requests'[r].user_id = tasks'[s].user]_vars

\* C17 witness: handle_photo is sending the join prompt to a user for whom
\* the check returned false, and the ledger holds no request of that user.
C17_Witness ==
    \E s \in Slots :
       /\ tasks[s].h = "photo" /\ tasks[s].pc = "join"
       /\ out = Call("join_prompt", tasks[s].user, None)
       /\ ~user_membership_status[tasks[s].user].is_member
       /\ \A r \in DOMAIN pending_requests :
             pending_requests[r].user_id # tasks[s].user

\* C18: a press of any of the five buttons by a user who is not in
\* ADMIN_IDS, whatever request id it names, and a message of such a user
\* that handle_admin_message receives change no status and no user_data,
\* start nothing and send nothing to any user: the press only removes the
\* keyboard of the pressed message.
C18_UnauthorizedIgnored ==
    [][\A s \in Slots : \A u \in USERS \ ADMIN_IDS :
          Takes(s) =>
          /\ \A a \in Actions : \A r \in CallbackIds :
                Button(s, u, a, r) =>
                   /\ pending_requests' = pending_requests
                   /\ user_data' = user_data
                   /\ tasks' = tasks
                   /\ notices' = notices
                   /\ out' = Call("edit_markup", None, None)
          /\ \A k \in MessageKinds \ {"photo", "text"} :
                Message(s, u, k) =>
                   /\ pending_requests' = pending_requests
                   /\ user_data' = user_data
                   /\ tasks' = tasks
                   /\ notices' = notices
                   /\ out' = NoOut]_vars

\* C18 witness: the keyboard has been removed on the press of a user who is
\* not an admin, and a request of the ledger is still pending.
C18_Witness ==
    /\ out = Call("edit_markup", None, None)
    /\ \E r \in DOMAIN pending_requests : pending_requests[r].status = "pending"

\* C19: a press by an admin of any of the five buttons with a request id
\* that is not in the ledger changes neither the ledger nor any user_data
\* (no key is set to the unknown id), reports "Request not found" on the
\* pressed message and leaves no handler suspended.
C19_UnknownIdReported ==
    [][\A s \in Slots :
          Takes(s) =>
             \A r \in CallbackIds \ DOMAIN pending_requests :
                \A u \in ADMIN_IDS : \A a \in Actions :
                   Button(s, u, a, r) =>
                      /\ pending_requests' = pending_requests
                      /\ user_data' = user_data
                      /\ notices' = notices
                      /\ tasks' = tasks
                      /\ out' = Call("not_found", u, r)]_vars

\* C19 witness: "Request not found" has been reported to an admin for an id
\* that is not in the ledger, while the ledger holds a request.
C19_Witness ==
    /\ out.type = "not_found"
    /\ out.to \in ADMIN_IDS
    /\ out.rid \notin DOMAIN pending_requests
    /\ pending_requests # <<>>
    /\ \A s \in Slots : IsIdle(s)

\* C20: when a notification or artifact of a transition has been requested
\* (the call issued by the last step), the request already has the status
\* of that transition: approved or rejected for the decision sent to the
\* requester, posted_to_channel for the requester's copy of a channel post,
\* and, for the first call of an artifact that finds the request in the
\* status its branch starts from, the status the branch writes.
C20_NotifyAfterStatus ==
    /\ out.type \in {"approved", "rejected"} =>
          pending_requests[out.rid].status = out.type
    /\ out.type = "channel_file" =>
          pending_requests[out.rid].status = "posted_to_channel"
    /\ \A s \in Slots :
          (/\ tasks[s].pc = "send"
           /\ out = FirstCall(tasks[s].act, tasks[s].to, tasks[s].rid)
           /\ LegalEdge(tasks[s].from, Outcome(tasks[s].act))) =>
             pending_requests[tasks[s].rid].status = Outcome(tasks[s].act)

\* A step in which a delivery of the upload handled in slot s raises: the
\* first call of the branch, or the copy to the requester of a channel
\* post.
Fails(s) ==
    /\ tasks[s].h = "artifact"
    /\ tasks[s].pc \in {"send", "copy"}
    /\ tasks'[s].pc = "idle"

\* C21: a key of user_data is deleted only when the confirmation of an
\* upload, the last call of its branch, has returned and the request has
\* the status of the branch; and when a delivery of an upload raises (for
\* an upload that found the request in the status its branch starts from),
\* the request keeps the status it had before the upload, the key of the
\* admin still names the request, and no other request and no other user's
\* user_data changes.
C21_FailureKeepsState ==
    [][/\ \A u \in USERS : \A f \in Fields :
             (user_data[u][f] # None /\ user_data'[u][f] = None) =>
                \E s \in Slots :
                   /\ ConfirmReturned(s, TRUE)
                   /\ tasks[s].user = u /\ tasks[s].act = f
                   /\ pending_requests[tasks[s].rid].status = Outcome(f)
       /\ \A s \in Slots :
             (Fails(s) /\ LegalEdge(tasks[s].from, Outcome(tasks[s].act))) =>
                /\ pending_requests'[tasks[s].rid].status = tasks[s].from
                /\ user_data'[tasks[s].user][tasks[s].act] = tasks[s].rid
                /\ \A r \in DOMAIN pending_requests \ {tasks[s].rid} :
                      pending_requests'[r] = pending_requests[r]
                /\ \A u \in USERS \ {tasks[s].user} :
                      user_data'[u] = user_data[u]]_vars

\* A step in which the lookup of slot s returns or raises over a record of
\* its user that track_chat_member wrote after the check had read the time:
\* the push was handled while the lookup was in flight.
LookedOverPush(s) ==
    /\ Looked(s)
    /\ tasks[s].user \in DOMAIN user_membership_status
    /\ user_membership_status[tasks[s].user].by = "push"
    /\ user_membership_status[tasks[s].user].last_check > tasks[s].ct

\* C22: when a lookup ends for a user whose record a push wrote while the
\* lookup was in flight, the record stays as the push left it.
C22_PushNotSuperseded ==
    [][\A s \in Slots :
          LookedOverPush(s) =>
             user_membership_status'[tasks[s].user] =
                user_membership_status[tasks[s].user]]_vars

\* The case of C22: a lookup is in flight for a user whose record a push
\* wrote after the check had read the time.
C22_InFlightOverPush ==
    \E s \in Slots :
       /\ tasks[s].pc = "lookup"
       /\ tasks[s].user \in DOMAIN user_membership_status
       /\ user_membership_status[tasks[s].user].by = "push"
       /\ user_membership_status[tasks[s].user].last_check > tasks[s].ct

====
